---- MODULE Spec2Model ----
(***************************************************************************)
(* A model of the gsheets-tennis API clients: the endpoint hierarchy of    *)
(* utils.py (validation, URL building, the HTTP GET, the sample files),    *)
(* the SofaScore helpers of rapidapi/sofascore/api.py and the Match        *)
(* construction of rapidapi/sofascore/data.py.                             *)
(*                                                                         *)
(* Python strings are TLA+ strings (Len, \o and SubSeq act on them), a     *)
(* Python dict is a sequence of <<key, value>> pairs with distinct keys in *)
(* insertion order, and None is the string None below.                     *)
(***************************************************************************)
EXTENDS Integers, Sequences, FiniteSets, TLC

VARIABLES
    fs,        \* the files on disk: path -> text
    dirs,      \* the directories on disk
    last,      \* the last call made on an endpoint
    prevDump,  \* the call before it, when that was a dump_sample that returned
    calls,     \* the number of endpoint calls made
    server,    \* SofaScore's result pages of a team's last matches
    pull,      \* the running or finished call of pull_matches / pull_all_matches
    prune,     \* the last call of prune_canceled
    mcall,     \* the last construction of a Match
    fcall      \* the last call of one of the other functions, with its result

vars == <<fs, dirs, last, prevDump, calls, server, pull, prune, mcall, fcall>>

\* the value of a variable the specification at hand makes no use of
Unused == "unused"

None == "None"

(***************************************************************************)
(* Strings.                                                                *)
(***************************************************************************)
\* s[i] of Python, 1-based; "" past the end
Ch(s, i) == IF i >= 1 /\ i <= Len(s) THEN SubSeq(s, i, i) ELSE ""

\* s.startswith(w, i - 1)
StartsWith(s, i, w) == i >= 1 /\ i + Len(w) - 1 <= Len(s) /\ SubSeq(s, i, i + Len(w) - 1) = w

\* str.replace(old, new) for a one-character old
RECURSIVE StrReplace(_, _, _)
StrReplace(s, old, new) ==
    IF Len(s) = 0 THEN ""
    ELSE (IF Ch(s, 1) = old THEN new ELSE Ch(s, 1))
         \o StrReplace(SubSeq(s, 2, Len(s)), old, new)

\* sep.join(items)
RECURSIVE StrJoin(_, _)
StrJoin(sep, items) ==
    IF Len(items) = 0 THEN ""
    ELSE IF Len(items) = 1 THEN items[1]
    ELSE items[1] \o sep \o StrJoin(sep, Tail(items))

(***************************************************************************)
(* Dicts.                                                                  *)
(***************************************************************************)
DictValues(d) == [i \in 1..Len(d) |-> d[i][2]]
DictHas(d, k) == \E i \in 1..Len(d) : d[i][1] = k

\* d[k] = v: an existing key keeps its place
DictSet(d, k, v) ==
    IF DictHas(d, k) THEN [i \in 1..Len(d) |-> IF d[i][1] = k THEN <<k, v>> ELSE d[i]]
    ELSE Append(d, <<k, v>>)

\* d.update(other)
RECURSIVE DictUpdate(_, _)
DictUpdate(d, other) ==
    IF Len(other) = 0 THEN d
    ELSE DictUpdate(DictSet(d, other[1][1], other[1][2]), Tail(other))

\* {k: v for k, v in zip(keys, values)}
RECURSIVE DictZip(_, _)
DictZip(keys, values) ==
    IF Len(keys) = 0 \/ Len(values) = 0 THEN <<>>
    ELSE DictUpdate(<<<<keys[1], values[1]>>>>, DictZip(Tail(keys), Tail(values)))

(***************************************************************************)
(* JSON: the values are null, true, false, non-negative integers and lists *)
(* of values.  JsonLoads is json.loads on a text, JsonDump is              *)
(* json.dump(data, f, indent=4).                                           *)
(***************************************************************************)
JNull == [t |-> "null"]
JBool(b) == [t |-> "bool", v |-> b]
JInt(n) == [t |-> "int", v |-> n]
JList(items) == [t |-> "list", items |-> items]

Digits == <<"0", "1", "2", "3", "4", "5", "6", "7", "8", "9">>
IsDigit(c) == \E i \in 1..10 : Digits[i] = c
DigitValue(c) == (CHOOSE i \in 1..10 : Digits[i] = c) - 1

IsJsonSpace(c) == c \in {" ", "\t", "\n", "\r"}

RECURSIVE SkipSpace(_, _)
SkipSpace(s, i) == IF IsJsonSpace(Ch(s, i)) THEN SkipSpace(s, i + 1) ELSE i

ParseFail == [ok |-> FALSE, val |-> JNull, pos |-> 0]
ParseOk(v, p) == [ok |-> TRUE, val |-> v, pos |-> p]

\* the digits of an integer from s[i] on: its value and the place after it
RECURSIVE ScanDigits(_, _, _)
ScanDigits(s, i, n) ==
    IF IsDigit(Ch(s, i)) THEN ScanDigits(s, i + 1, 10 * n + DigitValue(Ch(s, i)))
    ELSE [n |-> n, pos |-> i]

\* IntToStr with the digits in the order the division yields them
RECURSIVE IntToStr_Reversed(_)
IntToStr_Reversed(n) ==
    IF n < 10 THEN Digits[n + 1] ELSE Digits[(n % 10) + 1] \o IntToStr_Reversed(n \div 10)

\* str(n) for n >= 0
RECURSIVE IntToStr(_)
IntToStr(n) == IF n < 10 THEN Digits[n + 1] ELSE IntToStr(n \div 10) \o Digits[(n % 10) + 1]

RECURSIVE ParseValue(_, _)
RECURSIVE ParseItems(_, _, _)

\* the decoder's value scanner: a value starting at s[i], and the place after it
ParseValue(s, i) ==
    IF StartsWith(s, i, "null") THEN ParseOk(JNull, i + 4)
    ELSE IF StartsWith(s, i, "true") THEN ParseOk(JBool(TRUE), i + 4)
    ELSE IF StartsWith(s, i, "false") THEN ParseOk(JBool(FALSE), i + 5)
    ELSE IF Ch(s, i) = "0" THEN ParseOk(JInt(0), i + 1)
    ELSE IF IsDigit(Ch(s, i)) THEN
        LET r == ScanDigits(s, i, 0) IN ParseOk(JInt(r.n), r.pos)
    ELSE IF Ch(s, i) = "[" THEN
        LET j == SkipSpace(s, i + 1)
        IN  IF Ch(s, j) = "]" THEN ParseOk(JList(<<>>), j + 1)
            ELSE ParseItems(s, j, <<>>)
    ELSE ParseFail

\* the items of a list after "[": value, then "," or "]"
ParseItems(s, i, acc) ==
    LET r == ParseValue(s, i)
    IN  IF ~r.ok THEN ParseFail
        ELSE LET j == SkipSpace(s, r.pos)
                 items == Append(acc, r.val)
             IN  IF Ch(s, j) = "]" THEN ParseOk(JList(items), j + 1)
                 ELSE IF Ch(s, j) = "," THEN ParseItems(s, SkipSpace(s, j + 1), items)
                 ELSE ParseFail

\* json.loads(text): ok is FALSE for a JSONDecodeError
JsonLoads(text) ==
    LET r == ParseValue(text, SkipSpace(text, 1))
    IN  IF r.ok /\ SkipSpace(text, r.pos) = Len(text) + 1 THEN [ok |-> TRUE, val |-> r.val]
        ELSE [ok |-> FALSE, val |-> JNull]

RECURSIVE Indent(_)
Indent(level) == IF level = 0 THEN "" ELSE "    " \o Indent(level - 1)

RECURSIVE JsonDumpAt(_, _)
JsonDumpAt(v, level) ==
    IF v.t = "null" THEN "null"
    ELSE IF v.t = "bool" THEN (IF v.v THEN "true" ELSE "false")
    ELSE IF v.t = "int" THEN IntToStr(v.v)
    ELSE IF Len(v.items) = 0 THEN "[]"
    ELSE "[\n" \o Indent(level + 1)
         \o StrJoin(",\n" \o Indent(level + 1),
                    [k \in 1..Len(v.items) |-> JsonDumpAt(v.items[k], level + 1)])
         \o "\n" \o Indent(level) \o "]"

JsonDump(v) == JsonDumpAt(v, 0)

(***************************************************************************)
(* The endpoints (utils.py).  An endpoint object is a record of the fields *)
(* its constructors set; cls is the abstract class whose retrieve it       *)
(* inherits.  Every endpoint of the repository keeps optparams_in_url at   *)
(* its default.                                                            *)
(***************************************************************************)
PREFIX == "https://"

\* SofaScoreEndpoint(endpoint, *params, optparams=optparams, folder=folder)
SofaScoreEndpoint(endpoint, params, optparams, folder) ==
    [cls |-> "RequestParamsEndpoint", HOST |-> "sofascore.p.rapidapi.com",
     API_PROVIDER |-> "rapidapi", APINAME |-> "sofascore",
     endpoint |-> endpoint, mainparam |-> None, params |-> params,
     optparams |-> optparams, folder |-> folder, optparams_in_url |-> TRUE]

\* LiveScoreEndpoint("detail", "Eid", "Category", optparams=["LiveTable"], folder="matches/v2")
LiveScoreDetail ==
    [cls |-> "RequestParamsEndpoint", HOST |-> "livescore6.p.rapidapi.com",
     API_PROVIDER |-> "rapidapi", APINAME |-> "livescore",
     endpoint |-> "detail", mainparam |-> None, params |-> <<"Eid", "Category">>,
     optparams |-> <<"LiveTable">>, folder |-> "matches/v2", optparams_in_url |-> TRUE]

\* TennisLiveDataEndpoint("matches", "tournament_id", optparams=["date"])
TennisLiveMatches ==
    [cls |-> "UrlParamsEndpoint", HOST |-> "tennis-live-data.p.rapidapi.com",
     API_PROVIDER |-> "rapidapi", APINAME |-> "tennis-live-data",
     endpoint |-> "matches", mainparam |-> None, params |-> <<"tournament_id">>,
     optparams |-> <<"date">>, folder |-> None, optparams_in_url |-> TRUE]

\* SportScoreEndpoint("events", "id", "date", optparams=["page"], folder="sports")
SportScoreEvents ==
    [cls |-> "MainParamEndpoint", HOST |-> "sportscore1.p.rapidapi.com",
     API_PROVIDER |-> "rapidapi", APINAME |-> "sportscore",
     endpoint |-> "events", mainparam |-> "id", params |-> <<"date">>,
     optparams |-> <<"page">>, folder |-> "sports", optparams_in_url |-> TRUE]

\* SportScoreEndpoint(endpoint, mainparam, *params, optparams=optparams,
\*                    folder=folder, optparams_in_url=optparams_in_url)
SportScoreEndpoint(endpoint, mainparam, params, optparams, folder, optparams_in_url) ==
    [cls |-> "MainParamEndpoint", HOST |-> "sportscore1.p.rapidapi.com",
     API_PROVIDER |-> "rapidapi", APINAME |-> "sportscore",
     endpoint |-> endpoint, mainparam |-> mainparam, params |-> params,
     optparams |-> optparams, folder |-> folder, optparams_in_url |-> optparams_in_url]

\* the endpoints the calls below are made on: one of each retrieve
Endpoints == {LiveScoreDetail, TennisLiveMatches, SportScoreEvents}

\* "if self.folder:" -- None and "" are both false
Truthy(x) == x # None /\ x # ""

\* ApiEndpoint.url
Url(e) ==
    IF Truthy(e.folder) THEN PREFIX \o e.HOST \o "/" \o e.folder \o "/" \o e.endpoint
    ELSE PREFIX \o e.HOST \o "/" \o e.endpoint

\* ValidateParamvalues without the override of MainParamEndpoint
ValidateParamvalues_NoOverride(e, paramvalues) == Len(e.params) = Len(paramvalues)

\* _validate_paramvalues of ApiEndpoint and its override in MainParamEndpoint:
\* TRUE when no ValueError is raised
ValidateParamvalues(e, paramvalues) ==
    IF e.cls = "MainParamEndpoint"
    THEN Len(<<e.mainparam>> \o e.params) = Len(paramvalues)
    ELSE Len(e.params) = Len(paramvalues)

\* _validate_optparamvalues: TRUE when err_keys is empty
ValidateOptparamvalues(e, optparamvalues) ==
    LET err_keys == {i \in 1..Len(optparamvalues) :
                        \A j \in 1..Len(e.optparams) : e.optparams[j] # optparamvalues[i][1]}
    IN  err_keys = {}

\* pathlib: a path is its string; parent / name and path.parent
PathJoin(parent, name) == parent \o "/" \o name

RECURSIVE LastSlash(_, _)
LastSlash(s, i) == IF i = 0 \/ Ch(s, i) = "/" THEN i ELSE LastSlash(s, i - 1)

Parent(path) ==
    LET k == LastSlash(path, Len(path))
    IN  IF k = 0 THEN "." ELSE SubSeq(path, 1, k - 1)

\* destdir.mkdir(parents=True) where destdir does not exist
RECURSIVE Mkdir(_, _)
Mkdir(dirset, dir) ==
    IF dir \in dirset THEN dirset ELSE Mkdir(dirset \cup {dir}, Parent(dir))

\* the file name _sample_dest builds after the folder part
SampleTail(e, paramvalues, optparamvalues) ==
    StrReplace(e.endpoint, "-", "_")
    \o (IF Len(paramvalues) > 0 THEN "_" \o StrJoin("_", paramvalues) ELSE "")
    \o (IF Len(optparamvalues) > 0 THEN "_" \o StrJoin("_", DictValues(optparamvalues)) ELSE "")
    \o ".json"

\* _sample_dest of ApiEndpoint and its override in MainParamEndpoint (called
\* after validation only)
SampleDest(e, paramvalues, optparamvalues) ==
    LET destdir == "data/" \o e.API_PROVIDER \o "/" \o e.APINAME \o "/samples"
        head == IF Truthy(e.folder) THEN StrReplace(e.folder, "/", "_") \o "_" ELSE ""
    IN  IF e.cls = "MainParamEndpoint"
        THEN PathJoin(destdir, head \o Head(paramvalues) \o "_"
                               \o SampleTail(e, Tail(paramvalues), optparamvalues))
        ELSE PathJoin(destdir, head \o SampleTail(e, paramvalues, optparamvalues))

(***************************************************************************)
(* A call's result: how it ended (returned, or the exception it raised),   *)
(* the value returned, the HTTP requests it issued in order, the paths it  *)
(* wrote, and the file system it leaves (files and directories).           *)
(***************************************************************************)
Result(outcome, result, requests, written, fsys, dirset) ==
    [outcome |-> outcome, result |-> result, requests |-> requests,
     written |-> written, fs |-> fsys, dirs |-> dirset]

\* the result of a call that returned nothing
NoResult == [t |-> "none"]

Raised(exc, requests, fsys, dirset) == Result(exc, NoResult, requests, {}, fsys, dirset)

\* an HTTP GET, as requests.request("GET", url, headers=..., params=...) sends it
Get(url, params) == [url |-> url, params |-> params]

\* what the network and the server do with one request
ResponseTexts == {"[0, 1]", "[[12],true]", "<html>"}
Envs == {[kind |-> "exception", text |-> ""]}
        \cup {[kind |-> "response", text |-> t] : t \in ResponseTexts}

\* open(mode="w") and json.dump(data, f, indent=4)
WriteFile(fsys, dest, text) ==
    [p \in (DOMAIN fsys) \cup {dest} |-> IF p = dest THEN text ELSE fsys[p]]

\* Fetch asking the server a second time when the answer is no JSON
Fetch_Retry(request, dumpdest, env, fsys, dirset) ==
    IF env.kind = "exception" THEN Raised("RequestException", <<request>>, fsys, dirset)
    ELSE LET data == JsonLoads(env.text)
         IN  IF ~data.ok THEN Raised("JSONDecodeError", <<request, request>>, fsys, dirset)
             ELSE IF dumpdest = None
                  THEN Result("returned", data.val, <<request>>, {}, fsys, dirset)
             ELSE IF Parent(dumpdest) \notin dirset
                  THEN Raised("FileNotFoundError", <<request>>, fsys, dirset)
             ELSE Result("returned", data.val, <<request>>, {dumpdest},
                         WriteFile(fsys, dumpdest, JsonDump(data.val)), dirset)

\* Fetch dumping the raw response text before it is decoded
Fetch_DumpFirst(request, dumpdest, env, fsys, dirset) ==
    IF env.kind = "exception" THEN Raised("RequestException", <<request>>, fsys, dirset)
    ELSE IF dumpdest # None /\ Parent(dumpdest) \notin dirset
         THEN Raised("FileNotFoundError", <<request>>, fsys, dirset)
    ELSE LET data == JsonLoads(env.text)
             fsys2 == IF dumpdest = None THEN fsys ELSE WriteFile(fsys, dumpdest, env.text)
             wrote == IF dumpdest = None THEN {} ELSE {dumpdest}
         IN  IF ~data.ok THEN Result("JSONDecodeError", NoResult, <<request>>, wrote, fsys2, dirset)
             ELSE Result("returned", data.val, <<request>>, wrote, fsys2, dirset)

\* the part every retrieve shares: the request, json.loads(response.text),
\* the optional dump, the return
Fetch(request, dumpdest, env, fsys, dirset) ==
    IF env.kind = "exception" THEN Raised("RequestException", <<request>>, fsys, dirset)
    ELSE LET data == JsonLoads(env.text)
         IN  IF ~data.ok THEN Raised("JSONDecodeError", <<request>>, fsys, dirset)
             ELSE IF dumpdest = None
                  THEN Result("returned", data.val, <<request>>, {}, fsys, dirset)
             ELSE IF Parent(dumpdest) \notin dirset
                  THEN Raised("FileNotFoundError", <<request>>, fsys, dirset)
             ELSE Result("returned", data.val, <<request>>, {dumpdest},
                         WriteFile(fsys, dumpdest, JsonDump(data.val)), dirset)

\* endpoint_retrieve(endpoint_url, headersmap, paramsmap, dumpdest)
EndpointRetrieve(endpoint_url, paramsmap, dumpdest, env, fsys, dirset) ==
    Fetch(Get(endpoint_url, paramsmap), dumpdest, env, fsys, dirset)

\* UrlParamsEndpoint.retrieve
UrlParamsRetrieve(e, paramvalues, dumpdest, optparamvalues, env, fsys, dirset) ==
    IF ~ValidateParamvalues(e, paramvalues) THEN Raised("ValueError", <<>>, fsys, dirset)
    ELSE IF ~ValidateOptparamvalues(e, optparamvalues)
         THEN Raised("ValueError", <<>>, fsys, dirset)
    ELSE LET url1 == Url(e) \o (IF Len(paramvalues) > 0
                                THEN "/" \o StrJoin("/", paramvalues) ELSE "")
             url2 == url1 \o (IF Len(optparamvalues) > 0 /\ e.optparams_in_url
                              THEN "/" \o StrJoin("/", DictValues(optparamvalues)) ELSE "")
             request == IF e.optparams_in_url THEN Get(url2, <<>>)
                        ELSE Get(url2, optparamvalues)
         IN  Fetch(request, dumpdest, env, fsys, dirset)

\* RequestParamsEndpoint.retrieve, with ApiEndpoint.paramsmap and optparamsmap
RequestParamsRetrieve(e, paramvalues, dumpdest, optparamvalues, env, fsys, dirset) ==
    IF ~ValidateParamvalues(e, paramvalues) THEN Raised("ValueError", <<>>, fsys, dirset)
    ELSE IF ~ValidateOptparamvalues(e, optparamvalues)
         THEN Raised("ValueError", <<>>, fsys, dirset)
    ELSE LET paramsmap == DictUpdate(DictZip(e.params, paramvalues), optparamvalues)
         IN  Fetch(Get(Url(e), paramsmap), dumpdest, env, fsys, dirset)

\* MainParamRetrieve leaving the main value where the other values are, after
\* the endpoint
MainParamRetrieve_MainLast(e, paramvalues, dumpdest, optparamvalues, env, fsys, dirset) ==
    IF ~ValidateParamvalues(e, paramvalues) THEN Raised("ValueError", <<>>, fsys, dirset)
    ELSE IF ~ValidateOptparamvalues(e, optparamvalues)
         THEN Raised("ValueError", <<>>, fsys, dirset)
    ELSE LET url1 == Url(e) \o "/" \o StrJoin("/", paramvalues)
             url2 == url1 \o (IF Len(optparamvalues) > 0 /\ e.optparams_in_url
                              THEN "/" \o StrJoin("/", DictValues(optparamvalues)) ELSE "")
             request == IF e.optparams_in_url THEN Get(url2, <<>>)
                        ELSE Get(url2, optparamvalues)
         IN  Fetch(request, dumpdest, env, fsys, dirset)

\* MainParamEndpoint.retrieve
MainParamRetrieve(e, paramvalues, dumpdest, optparamvalues, env, fsys, dirset) ==
    IF ~ValidateParamvalues(e, paramvalues) THEN Raised("ValueError", <<>>, fsys, dirset)
    ELSE IF ~ValidateOptparamvalues(e, optparamvalues)
         THEN Raised("ValueError", <<>>, fsys, dirset)
    ELSE LET mainvalue == Head(paramvalues)
             rest == Tail(paramvalues)
             url0 == SubSeq(Url(e), 1, Len(Url(e)) - (Len(e.endpoint) + 1))
             url1 == url0 \o "/" \o mainvalue \o "/" \o e.endpoint
             url2 == url1 \o (IF Len(rest) > 0 THEN "/" \o StrJoin("/", rest) ELSE "")
             url3 == url2 \o (IF Len(optparamvalues) > 0 /\ e.optparams_in_url
                              THEN "/" \o StrJoin("/", DictValues(optparamvalues)) ELSE "")
             request == IF e.optparams_in_url THEN Get(url3, <<>>)
                        ELSE Get(url3, optparamvalues)
         IN  Fetch(request, dumpdest, env, fsys, dirset)

\* e.retrieve(*paramvalues, dumpdest=dumpdest, **optparamvalues)
Retrieve(e, paramvalues, dumpdest, optparamvalues, env, fsys, dirset) ==
    IF e.cls = "MainParamEndpoint"
    THEN MainParamRetrieve(e, paramvalues, dumpdest, optparamvalues, env, fsys, dirset)
    ELSE IF e.cls = "UrlParamsEndpoint"
    THEN UrlParamsRetrieve(e, paramvalues, dumpdest, optparamvalues, env, fsys, dirset)
    ELSE RequestParamsRetrieve(e, paramvalues, dumpdest, optparamvalues, env, fsys, dirset)

\* ApiEndpoint.dump_sample; _sample_dest makes the samples directory
DumpSample(e, paramvalues, optparamvalues, env, fsys, dirset) ==
    IF ~ValidateParamvalues(e, paramvalues) THEN Raised("ValueError", <<>>, fsys, dirset)
    ELSE IF ~ValidateOptparamvalues(e, optparamvalues)
         THEN Raised("ValueError", <<>>, fsys, dirset)
    ELSE LET dest == SampleDest(e, paramvalues, optparamvalues)
         IN  Retrieve(e, paramvalues, dest, optparamvalues, env, fsys,
                      Mkdir(dirset, Parent(dest)))

\* ApiEndpoint.read_sample
ReadSample(e, paramvalues, optparamvalues, fsys, dirset) ==
    IF ~ValidateParamvalues(e, paramvalues) THEN Raised("ValueError", <<>>, fsys, dirset)
    ELSE IF ~ValidateOptparamvalues(e, optparamvalues)
         THEN Raised("ValueError", <<>>, fsys, dirset)
    ELSE LET dest == SampleDest(e, paramvalues, optparamvalues)
             made == Mkdir(dirset, Parent(dest))
         IN  IF dest \notin DOMAIN fsys THEN Raised("FileNotFoundError", <<>>, fsys, made)
             ELSE LET data == JsonLoads(fsys[dest])
                  IN  IF ~data.ok THEN Raised("JSONDecodeError", <<>>, fsys, made)
                      ELSE Result("returned", data.val, <<>>, {}, fsys, made)

(***************************************************************************)
(* The state of the endpoint specification: the files (path -> text) and   *)
(* directories on disk, the last call made on an endpoint, and, when the   *)
(* call before it was a dump_sample that returned, that call.              *)
(***************************************************************************)
MaxCalls == 2

ParamTuples == {<<>>, <<"1">>, <<"1", "2">>, <<"1", "2", "3">>}
OptTuples == {<<>>, <<<<"LiveTable", "true">>>>, <<<<"date", "7">>>>, <<<<"page", "0">>>>,
              <<<<"page", "0">>, <<"date", "7">>>>}
DumpDests == {None, "out.json", "missing/out.json"}

NoCall ==
    [op |-> "none", e |-> [cls |-> "none"], paramvalues |-> <<>>, optparamvalues |-> <<>>,
     dumpdest |-> None, outcome |-> "none", result |-> NoResult, requests |-> <<>>,
     written |-> {}]

Call(op, e, paramvalues, dumpdest, optparamvalues, r) ==
    [op |-> op, e |-> e, paramvalues |-> paramvalues, optparamvalues |-> optparamvalues,
     dumpdest |-> dumpdest, outcome |-> r.outcome, result |-> r.result,
     requests |-> r.requests, written |-> r.written]

\* the network is reached by a call with valid arguments only: what it would
\* have answered to a call that is refused is not part of the state
EnvsFor(e, paramvalues, optparamvalues) ==
    IF ValidateParamvalues(e, paramvalues) /\ ValidateOptparamvalues(e, optparamvalues)
    THEN Envs ELSE {[kind |-> "exception", text |-> ""]}

Completed(op, call) == IF call.op = op /\ call.outcome = "returned" THEN call ELSE NoCall

Init ==
    /\ fs = [p \in {} |-> ""]
    /\ dirs = {"."}
    /\ last = NoCall
    /\ prevDump = NoCall
    /\ calls = 0
    /\ server = Unused /\ pull = Unused /\ prune = Unused /\ mcall = Unused /\ fcall = Unused

Done(op, e, paramvalues, dumpdest, optparamvalues, r) ==
    /\ fs' = r.fs
    /\ dirs' = r.dirs
    /\ last' = Call(op, e, paramvalues, dumpdest, optparamvalues, r)
    /\ prevDump' = Completed("dump_sample", last)
    /\ calls' = calls + 1
    /\ UNCHANGED <<server, pull, prune, mcall, fcall>>

RetrieveCall ==
    /\ calls < MaxCalls
    /\ \E e \in Endpoints, paramvalues \in ParamTuples, optparamvalues \in OptTuples,
          dumpdest \in DumpDests :
          \E env \in EnvsFor(e, paramvalues, optparamvalues) :
          Done("retrieve", e, paramvalues, dumpdest, optparamvalues,
               Retrieve(e, paramvalues, dumpdest, optparamvalues, env, fs, dirs))

DumpSampleCall ==
    /\ calls < MaxCalls
    /\ \E e \in Endpoints, paramvalues \in ParamTuples, optparamvalues \in OptTuples :
          \E env \in EnvsFor(e, paramvalues, optparamvalues) :
          Done("dump_sample", e, paramvalues, None, optparamvalues,
               DumpSample(e, paramvalues, optparamvalues, env, fs, dirs))

ReadSampleCall ==
    /\ calls < MaxCalls
    /\ \E e \in Endpoints, paramvalues \in ParamTuples, optparamvalues \in OptTuples :
          Done("read_sample", e, paramvalues, None, optparamvalues,
               ReadSample(e, paramvalues, optparamvalues, fs, dirs))

\* the module's function, called with the URL of an endpoint and its values
EndpointRetrieveCall ==
    /\ calls < MaxCalls
    /\ \E dumpdest \in DumpDests, env \in Envs :
          LET e == [cls |-> "function", url |-> Url(LiveScoreDetail)]
              paramsmap == DictZip(LiveScoreDetail.params, <<"1", "2">>)
          IN  Done("endpoint_retrieve", e, <<>>, dumpdest, paramsmap,
                   EndpointRetrieve(e.url, paramsmap, dumpdest, env, fs, dirs))

Next == RetrieveCall \/ DumpSampleCall \/ ReadSampleCall \/ EndpointRetrieveCall

Spec == Init /\ [][Next]_vars

(***************************************************************************)
(* MainParamEndpoint.retrieve on endpoints declared with and without a     *)
(* folder, with none to two params after the main one, with one or two     *)
(* optparams sent in the URL or as request params. Nothing is dumped.      *)
(***************************************************************************)
MainParamEndpoints ==
    {SportScoreEndpoint("events", "id", params, optparams, folder, optparams_in_url) :
        params \in {<<>>, <<"date">>, <<"date", "tz">>},
        optparams \in {<<"page">>, <<"page", "date">>},
        folder \in {None, "sports"},
        optparams_in_url \in BOOLEAN}

MainEnvs == {[kind |-> "exception", text |-> ""], [kind |-> "response", text |-> "[0, 1]"]}

MainParamRetrieveCall ==
    /\ calls < MaxCalls
    /\ \E e \in MainParamEndpoints, paramvalues \in ParamTuples, optparamvalues \in OptTuples :
          \E env \in EnvsFor(e, paramvalues, optparamvalues) \cap MainEnvs :
          Done("retrieve", e, paramvalues, None, optparamvalues,
               MainParamRetrieve(e, paramvalues, None, optparamvalues, env, fs, dirs))

NextMain == MainParamRetrieveCall

SpecMain == Init /\ [][NextMain]_vars

(***************************************************************************)
(* Properties of the endpoint calls.                                       *)
(***************************************************************************)
\* the number of positional values an endpoint declares
DeclaredCount(e) == Len(e.params) + (IF e.cls = "MainParamEndpoint" THEN 1 ELSE 0)

\* a call with a wrong number of positional values or an undeclared keyword
BadArguments(call) ==
    \/ Len(call.paramvalues) # DeclaredCount(call.e)
    \/ \E i \in 1..Len(call.optparamvalues) :
          \A j \in 1..Len(call.e.optparams) :
             call.e.optparams[j] # call.optparamvalues[i][1]

IsCall(call) == call.op \in {"retrieve", "dump_sample", "read_sample"}

\* C1: a call of retrieve, dump_sample or read_sample with a wrong number of
\* positional values or with an undeclared keyword raises ValueError, and it
\* has issued no HTTP request and written no file.
C1_BadArgumentsRaise ==
    IsCall(last) /\ BadArguments(last)
        => last.outcome = "ValueError" /\ last.requests = <<>> /\ last.written = {}

\* a MainParamEndpoint called without its main value (as many values as
\* params), with a destination to dump to
C1_Witness ==
    /\ last.op = "retrieve" /\ last.e.cls = "MainParamEndpoint"
    /\ Len(last.paramvalues) = Len(last.e.params)
    /\ last.dumpdest = "out.json"
    /\ last.outcome = "ValueError"

\* C3: a retrieve that passes validation issues exactly one HTTP GET, whether
\* it returns or the request, the decoding or the dump fails, and whether or
\* not a sample file for the same arguments is on disk.
C3_OneGetPerRetrieve ==
    last.op = "retrieve" /\ ~BadArguments(last) => Len(last.requests) = 1

\* a retrieve whose answer was no JSON, made when the sample of the same
\* arguments was on disk
C3_Witness ==
    /\ last.op = "retrieve" /\ ~BadArguments(last)
    /\ last.outcome = "JSONDecodeError"
    /\ SampleDest(last.e, last.paramvalues, last.optparamvalues) \in DOMAIN fs
    /\ Len(last.requests) = 1

IsRetrieve(call) == call.op \in {"retrieve", "endpoint_retrieve"}

\* C4 as stated: retrieve writes a file if and only if dumpdest is given.
C4_WritesIffDumpdest ==
    [][IsRetrieve(last') /\ calls' = calls + 1
        => IF last'.dumpdest = None THEN fs' = fs
           ELSE /\ last'.dumpdest \in DOMAIN fs'
                /\ last'.written = {last'.dumpdest}]_vars

\* C4, amended: a retrieve that returns leaves the files as they were when
\* dumpdest is None, and otherwise writes dumpdest and nothing else, with a
\* text that parses to the value returned; a retrieve that raises writes
\* nothing.
C4_ReturnedWritesIffDumpdest ==
    [][IsRetrieve(last') /\ calls' = calls + 1
        => IF last'.outcome # "returned" \/ last'.dumpdest = None
           THEN fs' = fs /\ last'.written = {}
           ELSE /\ DOMAIN fs' = DOMAIN fs \cup {last'.dumpdest}
                /\ \A p \in DOMAIN fs : p # last'.dumpdest => fs'[p] = fs[p]
                /\ last'.written = {last'.dumpdest}
                /\ JsonLoads(fs'[last'.dumpdest]) = [ok |-> TRUE, val |-> last'.result]]_vars

\* a retrieve that returned a list and dumped it
C4_Witness ==
    /\ last.op = "retrieve" /\ last.outcome = "returned"
    /\ last.dumpdest = "out.json"
    /\ last.result.t = "list"
    /\ "out.json" \in DOMAIN fs

\* every value of a sequence, each after a slash
RECURSIVE Slashed(_)
Slashed(values) ==
    IF values = <<>> THEN "" ELSE "/" \o Head(values) \o Slashed(Tail(values))

\* prefix + host + [/folder] + /mainvalue + /endpoint + the remaining values
MainParamUrl(call) ==
    PREFIX \o call.e.HOST
    \o (IF call.e.folder = None THEN "" ELSE "/" \o call.e.folder)
    \o "/" \o Head(call.paramvalues) \o "/" \o call.e.endpoint
    \o Slashed(Tail(call.paramvalues))

IsMainParamCall(call) ==
    call.op = "retrieve" /\ call.e.cls = "MainParamEndpoint" /\ ~BadArguments(call)

\* C11 as stated: the URL a valid call on a MainParamEndpoint requests is
\* prefix + host + [/folder] + /mainvalue + /endpoint followed by the
\* remaining positional values in the order given.
C11_MainParamUrlPositional ==
    IsMainParamCall(last)
        => Len(last.requests) = 1 /\ last.requests[1].url = MainParamUrl(last)

\* C11, amended: that URL is followed by the optional values, in the order
\* given, when the endpoint sends its optparams in the URL; when it does
\* not, they are the request's params and the URL ends with the positional
\* values.
C11_MainParamUrl ==
    IsMainParamCall(last)
        => /\ Len(last.requests) = 1
           /\ IF last.e.optparams_in_url
              THEN /\ last.requests[1].url
                        = MainParamUrl(last) \o Slashed(DictValues(last.optparamvalues))
                   /\ last.requests[1].params = <<>>
              ELSE /\ last.requests[1].url = MainParamUrl(last)
                   /\ last.requests[1].params = last.optparamvalues

\* a call on an endpoint without folder, with two values after the main one
\* and two optional values sent in the URL
C11_Witness ==
    /\ IsMainParamCall(last)
    /\ last.e.folder = None /\ last.e.optparams_in_url
    /\ last.paramvalues = <<"1", "2", "3">>
    /\ Len(last.optparamvalues) = 2
    /\ last.requests = <<Get("https://sportscore1.p.rapidapi.com/1/events/2/3/0/7", <<>>)>>

\* C5: read_sample right after a dump_sample that returned, on the same
\* endpoint with the same values, returns what dump_sample returned and
\* issues no HTTP request.
C5_ReadSampleAfterDump ==
    /\ last.op = "read_sample" /\ prevDump.op = "dump_sample"
    /\ last.e = prevDump.e
    /\ last.paramvalues = prevDump.paramvalues
    /\ last.optparamvalues = prevDump.optparamvalues
    => /\ last.outcome = "returned"
       /\ last.result = prevDump.result
       /\ last.requests = <<>>

\* such a read, of a sample holding a nested list
C5_Witness ==
    /\ last.op = "read_sample" /\ prevDump.op = "dump_sample"
    /\ last.e = prevDump.e /\ last.e.cls = "MainParamEndpoint"
    /\ last.paramvalues = prevDump.paramvalues
    /\ last.optparamvalues = prevDump.optparamvalues
    /\ Len(last.optparamvalues) = 1
    /\ last.outcome = "returned"
    /\ last.result = JList(<<JList(<<JInt(12)>>), JBool(TRUE)>>)

(***************************************************************************)
(* rapidapi/sofascore/api.py: the team ids, pull_matches and               *)
(* pull_all_matches.  A decoded JSON object is PyDict of a function from   *)
(* its keys, a decoded JSON array is PyList of a sequence.                 *)
(***************************************************************************)
PyDict(d) == [t |-> "dict", d |-> d]
PyList(items) == [t |-> "list", items |-> items]

\* ENDPOINTS, its entries named get-last-matches and get-next-matches and the
\* entry before them, in the order of the list
ENDPOINTS ==
    <<SofaScoreEndpoint("get-player-statistics", <<>>, <<"type">>, "teams"),
      SofaScoreEndpoint("get-last-matches", <<"teamId">>, <<"pageIndex">>, "teams"),
      SofaScoreEndpoint("get-next-matches", <<"teamId">>, <<"pageIndex">>, "teams"),
      SofaScoreEndpoint("get-last-matches", <<"playerId">>, <<"pageIndex">>, "players"),
      SofaScoreEndpoint("get-next-matches", <<"playerId">>, <<"pageIndex">>, "players")>>

\* get_endpoint(endpoints, name, folder): the first entry of that name and folder
GetEndpoint(endpoints, name, folder) ==
    LET hits == {i \in 1..Len(endpoints) :
                    endpoints[i].endpoint = name /\ endpoints[i].folder = folder}
    IN  IF hits = {} THEN None
        ELSE endpoints[CHOOSE i \in hits : \A j \in hits : i <= j]

\* MEN_TEAMID_MAP and WOMEN_TEAMID_MAP, their entries with names in ASCII
MEN_TEAMID_MAP ==
    <<<<"Daniel Michalski", 257091>>, <<"Hubert Hurkacz", 158896>>,
      <<"Kamil Majchrzak", 108709>>, <<"Maciej Rajski", 111783>>,
      <<"Wojciech Marek", 257864>>, <<"Yann Wojcik", 179258>>>>
WOMEN_TEAMID_MAP ==
    <<<<"Anna Hertel", 222299>>, <<"Katarzyna Kawa", 42492>>,
      <<"Joanna Zawadzka", 161400>>, <<"Magda Linette", 42289>>,
      <<"Martyna Kubka", 294815>>, <<"Paula Kania", 45903>>,
      <<"Weronika Baszak", 321865>>, <<"Weronika Falkowska", 217160>>>>

\* {**MEN_TEAMID_MAP, **WOMEN_TEAMID_MAP}
TEAMID_MAP == DictUpdate(MEN_TEAMID_MAP, WOMEN_TEAMID_MAP)

\* {v: k for k, v in TEAMID_MAP.items()}
RECURSIVE Reversed(_)
Reversed(d) ==
    IF Len(d) = 0 THEN <<>>
    ELSE DictUpdate(<<<<d[1][2], d[1][1]>>>>, Reversed(Tail(d)))

PLAYERNAMES_MAP == Reversed(TEAMID_MAP)

\* d.get(k)
DictGet(d, k) ==
    IF DictHas(d, k) THEN d[CHOOSE i \in 1..Len(d) : d[i][1] = k][2] ELSE None

\* next((k for k, v in d.items() if v == value), None)
FirstKeyOf(d, value) ==
    LET hits == {i \in 1..Len(d) : d[i][2] = value}
    IN  IF hits = {} THEN None ELSE d[CHOOSE i \in hits : \A j \in hits : i <= j][1]

\* the page the server answers a request for pageIndex with: a page of the
\* team's matches, or an error object past the last page
PageAt(pages, page_index) ==
    IF page_index + 1 <= Len(pages) THEN pages[page_index + 1]
    ELSE PyDict([error |-> "Not Found"])

\* what a call of pull_matches or a run of pull_all_matches yields
PullResult(outcome, result, requests) ==
    [outcome |-> outcome, result |-> result, requests |-> requests]

\* pull_matches without the check of the team id
PullMatches_Unchecked(player_teamid, page_index, pages) ==
    LET endpoint == GetEndpoint(ENDPOINTS, "get-last-matches", "teams")
        paramvalues == <<IntToStr(player_teamid)>>
        optparamvalues == <<<<"pageIndex", page_index>>>>
        paramsmap == DictUpdate(DictZip(endpoint.params, paramvalues), optparamvalues)
        data == PageAt(pages, page_index)
        requests == <<Get(Url(endpoint), paramsmap)>>
    IN  IF "events" \notin DOMAIN data.d THEN PullResult("KeyError", NoResult, requests)
        ELSE PullResult("returned", data.d["events"], requests)

\* pull_matches(player_teamid, page_index); endpoint.retrieve is
\* RequestParamsEndpoint.retrieve with no dumpdest, answered by the server's page
PullMatches(player_teamid, page_index, pages) ==
    LET endpoint == GetEndpoint(ENDPOINTS, "get-last-matches", "teams")
        playername == FirstKeyOf(TEAMID_MAP, player_teamid)
        paramvalues == <<IntToStr(player_teamid)>>
        optparamvalues == <<<<"pageIndex", page_index>>>>
    IN  IF ~Truthy(playername) THEN PullResult("ValueError", NoResult, <<>>)
        ELSE IF ~ValidateParamvalues(endpoint, paramvalues)
                \/ ~ValidateOptparamvalues(endpoint, optparamvalues)
             THEN PullResult("ValueError", NoResult, <<>>)
        ELSE LET paramsmap == DictUpdate(DictZip(endpoint.params, paramvalues),
                                         optparamvalues)
                 data == PageAt(pages, page_index)
                 requests == <<Get(Url(endpoint), paramsmap)>>
             IN  IF "events" \notin DOMAIN data.d
                 THEN PullResult("KeyError", NoResult, requests)
                 ELSE PullResult("returned", data.d["events"], requests)

\* the pages a server may hold: each with or without events and hasNextPage
MaxPages == 2
EventLists == {<<>>, <<"m1">>, <<"m2", "m3">>}
Pages ==
    {PyDict([events |-> PyList(ev), hasNextPage |-> more]) :
        ev \in EventLists, more \in BOOLEAN}
    \cup {PyDict([hasNextPage |-> FALSE]), PyDict([events |-> PyList(<<"m4">>)])}
Servers == UNION {[1..n -> Pages] : n \in 0..MaxPages}

\* the team ids the calls are made with: two of TEAMID_MAP and two others
PlayerTeamIds == {158896, 42289, 0, 257092}

NoPull ==
    [op |-> "none", pc |-> "done", player_teamid |-> 0, page_index |-> 0,
     matches |-> <<>>, requests |-> <<>>, outcome |-> "none", result |-> NoResult]

InitSofa ==
    /\ server \in Servers
    /\ pull = NoPull
    /\ fs = Unused /\ dirs = Unused /\ last = Unused /\ prevDump = Unused
    /\ calls = Unused /\ prune = Unused /\ mcall = Unused /\ fcall = Unused

\* a call of pull_matches, from its start to its return or exception
PullMatchesCall ==
    /\ pull.pc = "done"
    /\ \E player_teamid \in PlayerTeamIds, page_index \in 0..MaxPages :
          LET r == PullMatches(player_teamid, page_index, server)
          IN  pull' = [op |-> "pull_matches", pc |-> "done",
                       player_teamid |-> player_teamid, page_index |-> page_index,
                       matches |-> <<>>, requests |-> r.requests,
                       outcome |-> r.outcome, result |-> r.result]
    /\ UNCHANGED <<server, fs, dirs, last, prevDump, calls, prune, mcall, fcall>>

\* pull_all_matches up to its loop
PullAllMatchesStart ==
    /\ pull.pc = "done"
    /\ \E player_teamid \in PlayerTeamIds :
          LET playername == DictGet(PLAYERNAMES_MAP, player_teamid)
              begun == [op |-> "pull_all_matches", pc |-> "loop",
                        player_teamid |-> player_teamid, page_index |-> 0,
                        matches |-> <<>>, requests |-> <<>>,
                        outcome |-> "none", result |-> NoResult]
          IN  pull' = IF ~Truthy(playername)
                      THEN [begun EXCEPT !.pc = "done", !.outcome = "ValueError"]
                      ELSE begun
    /\ UNCHANGED <<server, fs, dirs, last, prevDump, calls, prune, mcall, fcall>>

\* one turn of the loop of pull_all_matches
PullAllMatchesTurn ==
    /\ pull.pc = "loop"
    /\ LET r == PullMatches(pull.player_teamid, pull.page_index, server)
           requests == pull.requests \o r.requests
           raised(exc) == [pull EXCEPT !.pc = "done", !.outcome = exc,
                                        !.requests = requests]
           returned(matches) == [pull EXCEPT !.pc = "done", !.outcome = "returned",
                                              !.requests = requests,
                                              !.matches = matches,
                                              !.result = PyList(matches)]
       IN  pull' =
             IF r.outcome # "returned" THEN raised(r.outcome)
             \* result.get("events"): only a dict has get
             ELSE IF r.result.t # "dict" THEN raised("AttributeError")
             ELSE LET result == r.result.d
                      new_batch == IF "events" \in DOMAIN result
                                   THEN result["events"].items ELSE <<>>
                  IN  IF Len(new_batch) = 0 THEN returned(pull.matches)
                      ELSE IF "hasNextPage" \notin DOMAIN result
                           THEN [raised("KeyError") EXCEPT
                                    !.matches = pull.matches \o new_batch]
                      ELSE IF ~result["hasNextPage"]
                           THEN returned(pull.matches \o new_batch)
                      ELSE [pull EXCEPT !.matches = pull.matches \o new_batch,
                                        !.requests = requests,
                                        !.page_index = pull.page_index + 1]
    /\ UNCHANGED <<server, fs, dirs, last, prevDump, calls, prune, mcall, fcall>>

NextSofa == PullMatchesCall \/ PullAllMatchesStart \/ PullAllMatchesTurn

SpecSofa == InitSofa /\ [][NextSofa]_vars

(***************************************************************************)
(* Properties of pull_matches and pull_all_matches.                        *)
(***************************************************************************)
KnownTeamIds == {TEAMID_MAP[i][2] : i \in 1..Len(TEAMID_MAP)}

\* the pageIndex of each request, in the order the requests were issued
RequestedPages(requests) ==
    [i \in 1..Len(requests) |-> DictGet(requests[i].params, "pageIndex")]

\* a page after which the pulling is to stop
LastPage(page) ==
    \/ "events" \notin DOMAIN page.d
    \/ Len(page.d["events"].items) = 0
    \/ "hasNextPage" \in DOMAIN page.d /\ ~page.d["hasNextPage"]

\* the index of the first such page
RECURSIVE FirstLastPage(_, _)
FirstLastPage(pages, i) ==
    IF LastPage(PageAt(pages, i)) THEN i ELSE FirstLastPage(pages, i + 1)

\* the events of the pages 0..k, in page order
RECURSIVE EventsUpTo(_, _)
EventsUpTo(pages, k) ==
    LET page == PageAt(pages, k)
        events == IF "events" \in DOMAIN page.d THEN page.d["events"].items ELSE <<>>
    IN  IF k = 0 THEN events ELSE EventsUpTo(pages, k - 1) \o events

\* every page with events tells whether a next page follows
WellFormed(pages) ==
    \A i \in 1..Len(pages) :
        "events" \in DOMAIN pages[i].d => "hasNextPage" \in DOMAIN pages[i].d

\* C2: pull_all_matches for a known team id requests the pages 0, 1, 2, ...
\* in order, each once, up to the first page without a next page or without
\* events, and returns the events of the pages it requested, in page order.
C2_PullAllMatchesPages ==
    /\ pull.op = "pull_all_matches" /\ pull.pc = "done"
    /\ pull.player_teamid \in KnownTeamIds
    /\ WellFormed(server)
    => LET k == FirstLastPage(server, 0)
       IN  /\ pull.outcome = "returned"
           /\ RequestedPages(pull.requests) = [i \in 1..(k + 1) |-> i - 1]
           /\ pull.result = PyList(EventsUpTo(server, k))

\* C10: pull_matches and pull_all_matches raise ValueError for a team id that
\* is no value of TEAMID_MAP, and issue no HTTP request.
C10_UnknownTeamIdRaises ==
    /\ pull.op \in {"pull_matches", "pull_all_matches"}
    /\ pull.player_teamid \notin KnownTeamIds
    => /\ pull.pc = "done"
       /\ pull.outcome = "ValueError"
       /\ pull.requests = <<>>

\* pull_matches refused for an unknown id, asked for a page the server holds
C10_Witness ==
    /\ pull.op = "pull_matches" /\ pull.player_teamid = 257092
    /\ pull.page_index + 1 <= Len(server)
    /\ pull.outcome = "ValueError"

(***************************************************************************)
(* rapidapi/sofascore/data.py: the enums, SetScore and the construction of *)
(* a Match.  The match data is a decoded JSON object: a function from the  *)
(* keys it holds, so that an absent key is a key outside its DOMAIN.  An   *)
(* optional integer is NoInt or SomeInt(n).                                *)
(***************************************************************************)
\* the members of the enums, by name
Status ==
    [RETIRED |-> "Retired", ENDED |-> "Ended", CANCELED |-> "Canceled",
     COVERAGE_CANCELED |-> "Coverage canceled", WALKOVER |-> "Walkover"]
Ground ==
    [CLAY |-> "Clay", GRASS |-> "Grass", HARDCOURT_OUTDOOR |-> "Hardcourt outdoor",
     HARDCOURT_INDOOR |-> "Hardcourt indoor", SYNTHETIC_GRASS |-> "Synthetic grass"]
Category ==
    [WTA |-> "wta", ATP |-> "atp", CHALLENGER |-> "challenger",
     EXHIBITION |-> "exhibition", ITF_MEN |-> "itf-men", ITF_WOMEN |-> "itf-women",
     DAVIS_CUP |-> "davis-cup", JUNIORS |-> "juniors"]

\* next((m for m in enum if m.value == value), None): the member's name
MemberOf(enum, value) ==
    IF \E m \in DOMAIN enum : enum[m] = value
    THEN CHOOSE m \in DOMAIN enum : enum[m] = value
    ELSE None

NoInt == [some |-> FALSE]
SomeInt(n) == [some |-> TRUE, v |-> n]

\* d.get(key) for an integer field
GetInt(d, key) == IF key \in DOMAIN d THEN SomeInt(d[key]) ELSE NoInt

\* SetScoreRaises binding "and" and "or" the other way round
SetScoreRaises_OrFirst(home_score, away_score, home_tiebreak, away_tiebreak) ==
    IF ~home_score.some \/ ~away_score.some
    THEN home_tiebreak.some \/ away_tiebreak.some
    ELSE /\ home_tiebreak.some
         /\ (home_score.v \notin {6, 7} \/ away_tiebreak.some)
         /\ away_score.v \notin {6, 7}

\* SetScore.__post_init__: TRUE when it raises ValueError
SetScoreRaises(home_score, away_score, home_tiebreak, away_tiebreak) ==
    IF ~home_score.some \/ ~away_score.some
    THEN home_tiebreak.some \/ away_tiebreak.some
    ELSE \/ home_tiebreak.some /\ home_score.v \notin {6, 7}
         \/ away_tiebreak.some /\ away_score.v \notin {6, 7}

SetScore(home_score, away_score, home_tiebreak, away_tiebreak) ==
    [home_score |-> home_score, away_score |-> away_score,
     home_tiebreak |-> home_tiebreak, away_tiebreak |-> away_tiebreak]

\* how a step of the construction ends: with a value, or raising
Got(value) == [exc |-> "none", value |-> value]
Raise(exc) == [exc |-> exc, value |-> None]

\* GetStatus taking every member of Status
GetStatus_AnyMember(data) ==
    LET status == data["status"]["description"]
    IN  IF MemberOf(Status, status) # None THEN Got(MemberOf(Status, status))
        ELSE Raise("ValueError")

\* Match._get_status
GetStatus(data) ==
    LET status == data["status"]["description"]
    IN  IF status = Status["ENDED"] THEN Got("ENDED")
        ELSE IF status = Status["RETIRED"] THEN Got("RETIRED")
        ELSE Raise("ValueError")

\* Match._get_tournament: its category
GetTournament(data) ==
    LET category == MemberOf(Category, data["tournament"]["category"]["slug"])
    IN  IF category = None THEN Raise("ValueError") ELSE Got(category)

\* data["roundInfo"]["name"] if data.get("roundInfo") else None; an empty
\* object is false
GetRound(data) ==
    IF "roundInfo" \in DOMAIN data /\ DOMAIN data["roundInfo"] # {}
    THEN IF "name" \in DOMAIN data["roundInfo"] THEN Got(data["roundInfo"]["name"])
         ELSE Raise("KeyError")
    ELSE Got(None)

\* Match._get_first_to_serve
GetFirstToServe(data) ==
    IF "firstToServe" \notin DOMAIN data THEN None
    ELSE IF data["firstToServe"] = 1 THEN "HOME"
    ELSE IF data["firstToServe"] = 2 THEN "AWAY"
    ELSE None

\* getscores of Match._get_score
GetScores(d, tiebreaks) ==
    [i \in 1..5 |-> GetInt(d, "period" \o IntToStr(i) \o (IF tiebreaks THEN "TieBreak" ELSE ""))]

\* Match._get_score: the SetScores, those without both scores dropped;
\* Score() without a first set is a TypeError
GetScore(data) ==
    LET home_scores == GetScores(data["homeScore"], FALSE)
        home_tiebreaks == GetScores(data["homeScore"], TRUE)
        away_scores == GetScores(data["awayScore"], FALSE)
        away_tiebreaks == GetScores(data["awayScore"], TRUE)
        set_scores == [i \in 1..5 |-> SetScore(home_scores[i], away_scores[i],
                                                home_tiebreaks[i], away_tiebreaks[i])]
        Kept(ss) == ss.home_score.some /\ ss.away_score.some
    IN  IF \E i \in 1..5 : SetScoreRaises(home_scores[i], away_scores[i],
                                           home_tiebreaks[i], away_tiebreaks[i])
        THEN Raise("ValueError")
        ELSE IF Len(SelectSeq(set_scores, Kept)) = 0 THEN Raise("TypeError")
        ELSE Got(SelectSeq(set_scores, Kept))

\* GetWinner taking every code but 1 for the away side
GetWinner_ElseAway(data) ==
    IF "winnerCode" \notin DOMAIN data THEN Raise("KeyError")
    ELSE IF data["winnerCode"] = 1 THEN Got("HOME")
    ELSE Got("AWAY")

\* Match._get_winner
GetWinner(data) ==
    IF "winnerCode" \notin DOMAIN data THEN Raise("KeyError")
    ELSE IF data["winnerCode"] = 1 THEN Got("HOME")
    ELSE IF data["winnerCode"] = 2 THEN Got("AWAY")
    ELSE Raise("ValueError")

\* the place of a doubles partner a singles side has none of
NoContender == [name |-> None]

\* getcontender of Match._get_contenders
GetContender(data_, home, winner) ==
    LET gdata == IF "gender" \in DOMAIN data_ THEN data_["gender"] ELSE None
        is_winner == IF home THEN winner = "HOME" ELSE winner = "AWAY"
        side == IF home THEN "HOME" ELSE "AWAY"
        contender(gender) ==
            [name |-> data_["name"], popularity |-> data_["userCount"],
             ss_slug |-> data_["slug"], ssid |-> data_["id"], is_winner |-> is_winner,
             side |-> side, gender |-> gender, ranking |-> GetInt(data_, "ranking")]
    IN  IF ~Truthy(gdata) THEN Got(contender(None))
        ELSE IF gdata = "M" THEN Got(contender("MALE"))
        ELSE IF gdata = "F" THEN Got(contender("FEMALE"))
        ELSE Raise("ValueError")

\* GetContenders taking the first two of any longer list of sub-teams
GetContenders_AtLeastTwo(data, home, winner) ==
    LET team == data[IF home THEN "homeTeam" ELSE "awayTeam"]
        subTeams == team["subTeams"]
    IN  IF Len(subTeams) > 0
        THEN IF Len(subTeams) < 2 THEN Raise("ValueError")
             ELSE LET first == GetContender(subTeams[1], home, winner)
                      second == GetContender(subTeams[2], home, winner)
                  IN  IF first.exc # "none" THEN Raise(first.exc)
                      ELSE IF second.exc # "none" THEN Raise(second.exc)
                      ELSE Got(<<first.value, second.value>>)
        ELSE LET only == GetContender(team, home, winner)
             IN  IF only.exc # "none" THEN Raise(only.exc)
                 ELSE Got(<<only.value, NoContender>>)

\* Match._get_contenders
GetContenders(data, home, winner) ==
    LET team == data[IF home THEN "homeTeam" ELSE "awayTeam"]
        subTeams == team["subTeams"]
    IN  IF Len(subTeams) > 0
        THEN IF Len(subTeams) # 2 THEN Raise("ValueError")
             ELSE LET first == GetContender(subTeams[1], home, winner)
                      second == GetContender(subTeams[2], home, winner)
                  IN  IF first.exc # "none" THEN Raise(first.exc)
                      ELSE IF second.exc # "none" THEN Raise(second.exc)
                      ELSE Got(<<first.value, second.value>>)
        ELSE LET only == GetContender(team, home, winner)
             IN  IF only.exc # "none" THEN Raise(only.exc)
                 ELSE Got(<<only.value, NoContender>>)

\* the ground of Match.__init__; an empty groundType is false
GetGround(data) ==
    IF "groundType" \in DOMAIN data /\ data["groundType"] # ""
    THEN MemberOf(Ground, data["groundType"])
    ELSE None

NoMatch == [status |-> None]

\* Match.__init__: the fields in the order they are set; the first step that
\* raises ends the construction.  _get_time reads keys every match holds.
MatchInit(data) ==
    LET status == GetStatus(data)
        tournament == GetTournament(data)
        round == GetRound(data)
        score == GetScore(data)
        winner == GetWinner(data)
        home_contenders == GetContenders(data, TRUE, winner.value)
        away_contenders == GetContenders(data, FALSE, winner.value)
        failed(exc) == [outcome |-> exc, match |-> NoMatch]
    IN  IF status.exc # "none" THEN failed(status.exc)
        ELSE IF tournament.exc # "none" THEN failed(tournament.exc)
        ELSE IF round.exc # "none" THEN failed(round.exc)
        ELSE IF score.exc # "none" THEN failed(score.exc)
        ELSE IF winner.exc # "none" THEN failed(winner.exc)
        ELSE IF home_contenders.exc # "none" THEN failed(home_contenders.exc)
        ELSE IF away_contenders.exc # "none" THEN failed(away_contenders.exc)
        ELSE [outcome |-> "constructed",
              match |-> [status |-> status.value,
                         category |-> tournament.value,
                         round |-> round.value,
                         first_to_serve |-> GetFirstToServe(data),
                         score |-> score.value,
                         winner |-> winner.value,
                         home_contenders |-> home_contenders.value,
                         away_contenders |-> away_contenders.value,
                         ground |-> GetGround(data)]]

\* the match data a Match is constructed from
StatusDescriptions == {"Ended", "Retired", "Canceled", "Walkover"}
CategorySlugs == {"atp", "billie-jean-king-cup"}
NoKey == [k \in {} |-> 0]
RoundInfos ==
    {NoKey, [roundInfo |-> NoKey], [roundInfo |-> [round |-> 29, name |-> "Final"]],
     [roundInfo |-> [round |-> 1]]}
FirstToServes == {NoKey} \cup {[firstToServe |-> n] : n \in 1..3}
WinnerCodes == {NoKey} \cup {[winnerCode |-> n] : n \in 0..3}
GroundTypes ==
    {NoKey, [groundType |-> "Clay"], [groundType |-> "Hardcourt indoor"],
     [groundType |-> "Carpet"]}
\* the scores of the two sides: two sets with a tiebreak, a tiebreak in a set
\* lost 5-7, and no set played
ScorePairs ==
    {<<[period1 |-> 6, period2 |-> 7, period2TieBreak |-> 7],
       [period1 |-> 3, period2 |-> 6, period2TieBreak |-> 4]>>,
     <<[period1 |-> 5, period1TieBreak |-> 7], [period1 |-> 7]>>,
     <<NoKey, NoKey>>}
Hurkacz ==
    [name |-> "Hurkacz H.", slug |-> "hurkacz-hubert", gender |-> "M", userCount |-> 9,
     id |-> 158896, ranking |-> 9, subTeams |-> <<>>]
Majchrzak ==
    [name |-> "Majchrzak K.", slug |-> "majchrzak-kamil", userCount |-> 2, id |-> 108709,
     subTeams |-> <<>>]
Linette ==
    [name |-> "Linette M.", slug |-> "linette-magda", gender |-> "F", userCount |-> 5,
     id |-> 42289, ranking |-> 50]
Kawa == [name |-> "Kawa K.", slug |-> "kawa-katarzyna", userCount |-> 1, id |-> 42492]
Pair(a, b, subTeams) ==
    [name |-> a.name \o " / " \o b.name, slug |-> a.slug \o "-" \o b.slug,
     userCount |-> 0, id |-> a.id + b.id, subTeams |-> subTeams]
\* home and away: singles, doubles, and a side of one sub-team only
TeamPairs ==
    {<<Hurkacz, Majchrzak>>,
     <<Pair(Linette, Kawa, <<Linette, Kawa>>), Pair(Kawa, Linette, <<Kawa, Linette>>)>>,
     <<Majchrzak, Pair(Linette, Kawa, <<Linette>>)>>}

MatchDatas ==
    {[status |-> [description |-> st], customId |-> "xYsAb",
      tournament |-> [category |-> [slug |-> slug]],
      homeScore |-> sc[1], awayScore |-> sc[2],
      homeTeam |-> tp[1], awayTeam |-> tp[2]] @@ ri @@ fts @@ wc @@ gt :
        st \in StatusDescriptions, slug \in CategorySlugs, sc \in ScorePairs,
        tp \in TeamPairs, ri \in RoundInfos, fts \in FirstToServes,
        wc \in WinnerCodes, gt \in GroundTypes}

InitMatch ==
    /\ mcall \in {[data |-> d, outcome |-> "pending", match |-> NoMatch] : d \in MatchDatas}
    /\ fs = Unused /\ dirs = Unused /\ last = Unused /\ prevDump = Unused
    /\ calls = Unused /\ server = Unused /\ pull = Unused /\ prune = Unused
    /\ fcall = Unused

\* Match(data)
ConstructMatch ==
    /\ mcall.outcome = "pending"
    /\ LET r == MatchInit(mcall.data)
       IN  mcall' = [mcall EXCEPT !.outcome = r.outcome, !.match = r.match]
    /\ UNCHANGED <<fs, dirs, last, prevDump, calls, server, pull, prune, fcall>>

NextMatch == ConstructMatch

SpecMatch == InitMatch /\ [][NextMatch]_vars

(***************************************************************************)
(* prune_canceled (rapidapi/sofascore/api.py).                             *)
(***************************************************************************)
\* Status.<name>.value: a name that is no member raises AttributeError
StatusValue(name) == IF name \in DOMAIN Status THEN Got(Status[name]) ELSE Raise("AttributeError")

\* prune_canceled(matches_data): the condition of the comprehension reads
\* the three members for every entry, so an empty list reads none
PruneCanceled(matches_data) ==
    LET names == <<"CANCELED", "COVERAGE_CANCELED", "WARNING">>
        Kept(data) == \A i \in 1..Len(names) :
                         data["status"]["description"] # StatusValue(names[i]).value
    IN  IF Len(matches_data) = 0 THEN [outcome |-> "returned", result |-> <<>>]
        ELSE IF \E i \in 1..Len(names) : StatusValue(names[i]).exc # "none"
        THEN [outcome |-> "AttributeError", result |-> <<>>]
        ELSE [outcome |-> "returned", result |-> SelectSeq(matches_data, Kept)]

\* the lists prune_canceled is called with: entry i has customId i
MaxMatches == 3
PrunedStatuses == {Status[m] : m \in DOMAIN Status}
MatchesDatas ==
    UNION {{[i \in 1..n |-> [customId |-> i, status |-> [description |-> sts[i]]]] :
               sts \in [1..n -> PrunedStatuses]} : n \in 0..MaxMatches}

InitPrune ==
    /\ prune \in {[arg |-> md, matches_data |-> md, outcome |-> "pending", result |-> <<>>] :
                     md \in MatchesDatas}
    /\ fs = Unused /\ dirs = Unused /\ last = Unused /\ prevDump = Unused
    /\ calls = Unused /\ server = Unused /\ pull = Unused /\ mcall = Unused /\ fcall = Unused

\* prune_canceled(matches_data); the comprehension builds a new list
PruneCanceledCall ==
    /\ prune.outcome = "pending"
    /\ LET r == PruneCanceled(prune.matches_data)
       IN  prune' = [prune EXCEPT !.outcome = r.outcome, !.result = r.result]
    /\ UNCHANGED <<fs, dirs, last, prevDump, calls, server, pull, mcall, fcall>>

NextPrune == PruneCanceledCall

SpecPrune == InitPrune /\ [][NextPrune]_vars

(***************************************************************************)
(* Properties of prune_canceled and of the construction of a Match.        *)
(***************************************************************************)
\* the entries of a list whose status is no canceled one, in their order
RECURSIVE NotCanceled(_)
NotCanceled(matches_data) ==
    IF Len(matches_data) = 0 THEN <<>>
    ELSE (IF Head(matches_data)["status"]["description"] \in {"Canceled", "Coverage canceled"}
          THEN <<>> ELSE <<Head(matches_data)>>) \o NotCanceled(Tail(matches_data))

\* C6: prune_canceled returns, in their order, the entries whose status is
\* neither Canceled nor Coverage canceled, and leaves its argument as it was.
C6_PruneCanceledKeepsOthers ==
    prune.outcome # "pending"
        => /\ prune.outcome = "returned"
           /\ prune.result = NotCanceled(prune.arg)
           /\ prune.matches_data = prune.arg

\* C7: a Match is not constructed from data whose status is neither Ended nor
\* Retired, the construction raising ValueError, and a constructed Match has
\* status ENDED or RETIRED.
C7_StatusEndedOrRetired ==
    /\ (mcall.outcome # "pending"
         /\ mcall.data["status"]["description"] \notin {"Ended", "Retired"})
        => mcall.outcome = "ValueError"
    /\ mcall.outcome = "constructed" => mcall.match.status \in {"ENDED", "RETIRED"}

\* a walkover refused although every other field is in order
C7_Witness ==
    /\ mcall.outcome = "ValueError"
    /\ mcall.data["status"]["description"] = "Walkover"
    /\ mcall.data["tournament"]["category"]["slug"] = "atp"
    /\ "period1TieBreak" \notin DOMAIN mcall.data["homeScore"]
    /\ "winnerCode" \in DOMAIN mcall.data /\ mcall.data["winnerCode"] = 1

\* the fields read before winnerCode are in order: the status, the category,
\* the round and the set scores
ReadUpToWinner(data) ==
    /\ data["status"]["description"] \in {"Ended", "Retired"}
    /\ data["tournament"]["category"]["slug"] \in {Category[m] : m \in DOMAIN Category}
    /\ ("roundInfo" \in DOMAIN data /\ DOMAIN data["roundInfo"] # {})
          => "name" \in DOMAIN data["roundInfo"]
    /\ "period1" \in DOMAIN data["homeScore"] /\ "period1" \in DOMAIN data["awayScore"]
    /\ "period1TieBreak" \notin DOMAIN data["homeScore"]

Contenders(pair) == {pair[i] : i \in {j \in 1..2 : pair[j] # NoContender}}

\* C8: a winnerCode of 1 makes the winner HOME and 2 AWAY, any other value
\* makes the construction raise ValueError once it reads the code; in a
\* constructed Match the contenders of the winning side, and no others, have
\* is_winner, and each contender has the side of the team it was read from.
C8_WinnerAndContenders ==
    /\ (mcall.outcome # "pending" /\ ReadUpToWinner(mcall.data)
         /\ "winnerCode" \in DOMAIN mcall.data /\ mcall.data["winnerCode"] \notin {1, 2})
        => mcall.outcome = "ValueError"
    /\ mcall.outcome = "constructed"
        => /\ "winnerCode" \in DOMAIN mcall.data
           /\ mcall.data["winnerCode"] = 1 => mcall.match.winner = "HOME"
           /\ mcall.data["winnerCode"] = 2 => mcall.match.winner = "AWAY"
           /\ mcall.match.winner \in {"HOME", "AWAY"}
           /\ \A c \in Contenders(mcall.match.home_contenders) :
                 c.side = "HOME" /\ (c.is_winner <=> mcall.match.winner = "HOME")
           /\ \A c \in Contenders(mcall.match.away_contenders) :
                 c.side = "AWAY" /\ (c.is_winner <=> mcall.match.winner = "AWAY")
           /\ {c.ss_slug : c \in Contenders(mcall.match.home_contenders)}
                 = IF Len(mcall.data["homeTeam"]["subTeams"]) = 0
                   THEN {mcall.data["homeTeam"]["slug"]}
                   ELSE {mcall.data["homeTeam"]["subTeams"][i]["slug"] : i \in 1..2}
           /\ {c.ss_slug : c \in Contenders(mcall.match.away_contenders)}
                 = IF Len(mcall.data["awayTeam"]["subTeams"]) = 0
                   THEN {mcall.data["awayTeam"]["slug"]}
                   ELSE {mcall.data["awayTeam"]["subTeams"][i]["slug"] : i \in 1..2}

\* a doubles match the away side won
C8_Witness ==
    /\ mcall.outcome = "constructed"
    /\ mcall.data["winnerCode"] = 2
    /\ mcall.match.away_contenders[2] # NoContender
    /\ mcall.match.away_contenders[2].is_winner
    /\ ~mcall.match.home_contenders[1].is_winner

\* the fields a match must hold are in order: the status, the category, the
\* set scores, the winner code and the two teams
RequiredFieldsValid(data) ==
    /\ data["status"]["description"] \in {"Ended", "Retired"}
    /\ data["tournament"]["category"]["slug"] \in {Category[m] : m \in DOMAIN Category}
    /\ "period1" \in DOMAIN data["homeScore"] /\ "period1" \in DOMAIN data["awayScore"]
    /\ "period1TieBreak" \notin DOMAIN data["homeScore"]
    /\ "winnerCode" \in DOMAIN data /\ data["winnerCode"] \in {1, 2}
    /\ Len(data["homeTeam"]["subTeams"]) \in {0, 2}
    /\ Len(data["awayTeam"]["subTeams"]) \in {0, 2}

\* C9: whatever the optional fields hold, a match whose other fields are in
\* order is constructed: round is None without roundInfo, first_to_serve is
\* HOME for 1, AWAY for 2 and None otherwise, ground is the member of Ground
\* with the value of groundType and None without one.
C9_OptionalFieldsNeverFail ==
    (mcall.outcome # "pending" /\ RequiredFieldsValid(mcall.data))
        => /\ mcall.outcome = "constructed"
           /\ "roundInfo" \notin DOMAIN mcall.data => mcall.match.round = None
           /\ mcall.match.first_to_serve =
                 (IF "firstToServe" \notin DOMAIN mcall.data THEN None
                  ELSE IF mcall.data["firstToServe"] = 1 THEN "HOME"
                  ELSE IF mcall.data["firstToServe"] = 2 THEN "AWAY" ELSE None)
           /\ mcall.match.ground =
                 (IF "groundType" \notin DOMAIN mcall.data THEN None
                  ELSE IF mcall.data["groundType"] = "Clay" THEN "CLAY"
                  ELSE IF mcall.data["groundType"] = "Grass" THEN "GRASS"
                  ELSE IF mcall.data["groundType"] = "Hardcourt outdoor"
                       THEN "HARDCOURT_OUTDOOR"
                  ELSE IF mcall.data["groundType"] = "Hardcourt indoor"
                       THEN "HARDCOURT_INDOOR"
                  ELSE IF mcall.data["groundType"] = "Synthetic grass"
                       THEN "SYNTHETIC_GRASS"
                  ELSE None)

(***************************************************************************)
(* to_slug. A name is a sequence of code points; a code point of ASCII is  *)
(* the one-character string of it, any other is named by a longer string   *)
(* (the module's text is ASCII). The result, ASCII throughout, is a string.*)
(***************************************************************************)
IsAscii(c) == Len(c) = 1

\* unicodedata.normalize("NFKD", name): the decomposition of a code point
Decomposition(c) ==
    CASE c = "S_ACUTE" -> <<"S", "COMBINING_ACUTE">>
      [] c = "n_ACUTE" -> <<"n", "COMBINING_ACUTE">>
      [] c = "a_OGONEK" -> <<"a", "COMBINING_OGONEK">>
      [] c = "e_OGONEK" -> <<"e", "COMBINING_OGONEK">>
      [] c = "Z_DOT_ABOVE" -> <<"Z", "COMBINING_DOT_ABOVE">>
      [] c = "NO_BREAK_SPACE" -> <<" ">>
      [] OTHER -> <<c>>

RECURSIVE Normalize(_)
Normalize(name) ==
    IF name = <<>> THEN <<>> ELSE Decomposition(Head(name)) \o Normalize(Tail(name))

\* .encode("ascii", "ignore").decode("utf-8")
RECURSIVE EncodeAsciiIgnore(_)
EncodeAsciiIgnore(name) ==
    IF name = <<>> THEN ""
    ELSE (IF IsAscii(Head(name)) THEN Head(name) ELSE "") \o EncodeAsciiIgnore(Tail(name))

\* str.lower of an ASCII string
LowerChar(c) ==
    LET upper == "ABCDEFGHIJKLMNOPQRSTUVWXYZ"
        lower == "abcdefghijklmnopqrstuvwxyz"
        at == {i \in 1..26 : Ch(upper, i) = c}
    IN  IF at = {} THEN c ELSE Ch(lower, CHOOSE i \in at : TRUE)

RECURSIVE Lower(_)
Lower(text) ==
    IF text = "" THEN "" ELSE LowerChar(Ch(text, 1)) \o Lower(SubSeq(text, 2, Len(text)))

\* str.split(): the words between runs of whitespace
RECURSIVE SplitFrom(_, _, _, _)
SplitFrom(text, i, word, acc) ==
    IF i > Len(text) THEN (IF word = "" THEN acc ELSE Append(acc, word))
    ELSE IF Ch(text, i) = " "
         THEN SplitFrom(text, i + 1, "", IF word = "" THEN acc ELSE Append(acc, word))
    ELSE SplitFrom(text, i + 1, word \o Ch(text, i), acc)

Split(text) == SplitFrom(text, 1, "", <<>>)

\* to_slug(name)
ToSlug(name) == StrJoin("-", Split(Lower(EncodeAsciiIgnore(Normalize(name)))))

\* the names: a first name, one separator or run of them, a last name
FirstNames ==
    {<<"I", "g", "a">>, <<"J", "a", "n">>, <<"M", "i", "c", "h", "a", "l_STROKE">>,
     <<"M", "a", "j", "a">>, <<"K", "a", "c", "p", "e", "r">>, <<"U", "l", "a">>,
     <<"P", "a", "w", "e", "l">>}
LastNames ==
    {<<"S_ACUTE", "w", "i", "a_OGONEK", "t", "e", "k">>, <<"Z_DOT_ABOVE", "u", "k">>,
     <<"Z", "i", "e", "l", "i", "n_ACUTE", "s", "k", "i">>, <<"F", "r", "e_OGONEK", "c", "h">>,
     <<"K", "a", "w", "a">>, <<"D", "e", "m", "b", "e", "k">>, <<"M", "a", "j", "a">>}
Separators == {<<" ">>, <<" ", " ">>, <<"NO_BREAK_SPACE">>}
Names ==
    {first \o sep \o lastname :
        first \in FirstNames, sep \in Separators, lastname \in LastNames}

InitSlug ==
    /\ fcall \in {[op |-> "to_slug", name |-> name, outcome |-> "pending", result |-> None] :
                     name \in Names}
    /\ fs = Unused /\ dirs = Unused /\ last = Unused /\ prevDump = Unused
    /\ calls = Unused /\ server = Unused /\ pull = Unused /\ prune = Unused
    /\ mcall = Unused

ToSlugCall ==
    /\ fcall.outcome = "pending"
    /\ fcall' = [fcall EXCEPT !.outcome = "returned", !.result = ToSlug(fcall.name)]
    /\ UNCHANGED <<fs, dirs, last, prevDump, calls, server, pull, prune, mcall>>

NextSlug == ToSlugCall

SpecSlug == InitSlug /\ [][NextSlug]_vars

\* a word lower-cased and folded to ASCII
Folded(word) == Lower(EncodeAsciiIgnore(Normalize(word)))

\* C12: to_slug of a name of the form 'First Last' is the folded, lower-cased
\* last name, a '-', and the folded, lower-cased first name.
C12_SlugLastNameFirst ==
    \A first \in FirstNames, lastname \in LastNames :
        /\ fcall.outcome = "returned"
        /\ fcall.name = first \o <<" ">> \o lastname
        => fcall.result = Folded(lastname) \o "-" \o Folded(first)

(***************************************************************************)
(* SetScore on its own: construction from any four optional integers, and  *)
(* its winner and loser properties read from an object that exists.        *)
(***************************************************************************)
\* SetScore(home_score, away_score, home_tiebreak, away_tiebreak), the
\* dataclass's __init__ followed by __post_init__
SetScoreInit(home_score, away_score, home_tiebreak, away_tiebreak) ==
    IF SetScoreRaises(home_score, away_score, home_tiebreak, away_tiebreak)
    THEN Raise("ValueError")
    ELSE Got(SetScore(home_score, away_score, home_tiebreak, away_tiebreak))

\* SetScore.winner; an order comparison with None is a TypeError
SetScoreWinner(self) ==
    IF ~self.home_score.some \/ ~self.away_score.some THEN Raise("TypeError")
    ELSE IF self.home_score.v > self.away_score.v THEN Got("HOME")
    ELSE IF self.away_score.v > self.home_score.v THEN Got("AWAY")
    ELSE Got(None)

\* SetScore.loser
SetScoreLoser(self) ==
    LET winner == SetScoreWinner(self)
    IN  IF winner.exc # "none" THEN winner
        ELSE IF winner.value = "AWAY" THEN Got("HOME")
        ELSE IF winner.value = "HOME" THEN Got("AWAY")
        ELSE Got(None)

MaxGames == 7
OptInts == {NoInt} \cup {SomeInt(n) : n \in 0..MaxGames}
NotRead == [exc |-> "none", value |-> "not read"]

InitSet ==
    /\ fcall \in {[op |-> "SetScore", home_score |-> hs, away_score |-> as,
                   home_tiebreak |-> ht, away_tiebreak |-> at, outcome |-> "pending",
                   winner |-> NotRead, loser |-> NotRead] :
                     hs \in OptInts, as \in OptInts, ht \in OptInts, at \in OptInts}
    /\ fs = Unused /\ dirs = Unused /\ last = Unused /\ prevDump = Unused
    /\ calls = Unused /\ server = Unused /\ pull = Unused /\ prune = Unused
    /\ mcall = Unused

ConstructSetScore ==
    /\ fcall.outcome = "pending"
    /\ LET r == SetScoreInit(fcall.home_score, fcall.away_score,
                             fcall.home_tiebreak, fcall.away_tiebreak)
       IN  fcall' = [fcall EXCEPT !.outcome = IF r.exc = "none" THEN "constructed" ELSE r.exc]
    /\ UNCHANGED <<fs, dirs, last, prevDump, calls, server, pull, prune, mcall>>

\* the object the call constructed
Self(call) == SetScore(call.home_score, call.away_score, call.home_tiebreak, call.away_tiebreak)

ReadWinner ==
    /\ fcall.outcome = "constructed" /\ fcall.winner = NotRead
    /\ fcall' = [fcall EXCEPT !.winner = SetScoreWinner(Self(fcall))]
    /\ UNCHANGED <<fs, dirs, last, prevDump, calls, server, pull, prune, mcall>>

ReadLoser ==
    /\ fcall.outcome = "constructed" /\ fcall.loser = NotRead
    /\ fcall' = [fcall EXCEPT !.loser = SetScoreLoser(Self(fcall))]
    /\ UNCHANGED <<fs, dirs, last, prevDump, calls, server, pull, prune, mcall>>

NextSet == ConstructSetScore \/ ReadWinner \/ ReadLoser

SpecSet == InitSet /\ [][NextSet]_vars

\* (a) a main score is None while a tiebreak value is not
MainNoneWithTiebreak(call) ==
    /\ call.home_score = NoInt \/ call.away_score = NoInt
    /\ call.home_tiebreak # NoInt \/ call.away_tiebreak # NoInt

\* (b) both main scores are present and a side has a tiebreak value while
\* its own main score is neither 6 nor 7
TiebreakWithoutSixOrSeven(call) ==
    /\ call.home_score # NoInt /\ call.away_score # NoInt
    /\ \/ call.home_tiebreak # NoInt /\ call.home_score \notin {SomeInt(6), SomeInt(7)}
       \/ call.away_tiebreak # NoInt /\ call.away_score \notin {SomeInt(6), SomeInt(7)}

\* C13: SetScore construction raises ValueError exactly in cases (a) and (b);
\* every other combination of the four fields is accepted.
C13_SetScoreRaisesExactly ==
    fcall.outcome # "pending"
        => IF MainNoneWithTiebreak(fcall) \/ TiebreakWithoutSixOrSeven(fcall)
           THEN fcall.outcome = "ValueError"
           ELSE fcall.outcome = "constructed"

\* case (b) on the away side only: 7-5 with a tiebreak value for the side
\* that has 5
C13_Witness ==
    /\ fcall.outcome = "ValueError"
    /\ fcall.home_score = SomeInt(7) /\ fcall.away_score = SomeInt(5)
    /\ fcall.home_tiebreak = NoInt /\ fcall.away_tiebreak = SomeInt(3)

\* C14: winner and loser of a SetScore that construction accepted return
\* without raising: winner is HOME iff home_score > away_score, AWAY iff
\* away_score > home_score, None otherwise; loser is the opposite side, and
\* None iff winner is None.
C14_WinnerLoserNeverRaise ==
    /\ fcall.outcome = "constructed" /\ fcall.winner # NotRead
       => /\ fcall.winner.exc = "none"
          /\ fcall.winner.value \in {"HOME", "AWAY", None}
          /\ fcall.winner.value = "HOME"
                <=> fcall.home_score.some /\ fcall.away_score.some
                    /\ fcall.home_score.v > fcall.away_score.v
          /\ fcall.winner.value = "AWAY"
                <=> fcall.home_score.some /\ fcall.away_score.some
                    /\ fcall.away_score.v > fcall.home_score.v
    /\ fcall.outcome = "constructed" /\ fcall.loser # NotRead
       => /\ fcall.loser.exc = "none"
          /\ fcall.loser.value \in {"HOME", "AWAY", None}
          /\ fcall.winner # NotRead
             => /\ fcall.winner.value = "HOME" <=> fcall.loser.value = "AWAY"
                /\ fcall.winner.value = "AWAY" <=> fcall.loser.value = "HOME"
                /\ fcall.winner.value = None <=> fcall.loser.value = None

(***************************************************************************)
(* Match._get_contenders on its own: called for the home or the away team  *)
(* of match data whose winner is known, on teams of no, one, two and three *)
(* sub-teams and contenders whose gender is 'M', 'F', absent, null (None), *)
(* empty or something else.                                                *)
(***************************************************************************)
WithGender(player, gender) == [k \in DOMAIN player \cup {"gender"} |->
                                  IF k = "gender" THEN gender ELSE player[k]]

Singles ==
    {Hurkacz, Majchrzak, [Linette EXCEPT !.gender = "F"] @@ [subTeams |-> <<>>],
     WithGender(Majchrzak, ""), WithGender(Majchrzak, "X")}

SubTeamLists ==
    {<<Linette>>, <<Linette, Kawa>>, <<Kawa, Linette>>, <<Linette, Kawa, Hurkacz>>,
     <<Kawa, WithGender(Kawa, "")>>, <<WithGender(Kawa, "m"), Linette>>,
     <<Linette, WithGender(Kawa, "M")>>, <<WithGender(Linette, None), Kawa>>}

Doubles == {Pair(subTeams[1], Kawa, subTeams) : subTeams \in SubTeamLists}

Teams == Singles \cup Doubles

InitContenders ==
    /\ fcall \in {[op |-> "_get_contenders", data |-> [homeTeam |-> h, awayTeam |-> a],
                   home |-> home, winner |-> winner, outcome |-> "pending",
                   result |-> <<>>] :
                     h \in Teams, a \in Teams, home \in BOOLEAN, winner \in {"HOME", "AWAY"}}
    /\ fs = Unused /\ dirs = Unused /\ last = Unused /\ prevDump = Unused
    /\ calls = Unused /\ server = Unused /\ pull = Unused /\ prune = Unused
    /\ mcall = Unused

GetContendersCall ==
    /\ fcall.outcome = "pending"
    /\ LET r == GetContenders(fcall.data, fcall.home, fcall.winner)
       IN  fcall' = [fcall EXCEPT
                        !.outcome = IF r.exc = "none" THEN "returned" ELSE r.exc,
                        !.result = IF r.exc = "none" THEN r.value ELSE <<>>]
    /\ UNCHANGED <<fs, dirs, last, prevDump, calls, server, pull, prune, mcall>>

NextContenders == GetContendersCall

SpecContenders == InitContenders /\ [][NextContenders]_vars

\* the team a call reads, and the entries its contenders are read from
TeamOf(call) == IF call.home THEN call.data.homeTeam ELSE call.data.awayTeam
SourcesOf(call) ==
    IF TeamOf(call).subTeams = <<>> THEN <<TeamOf(call)>> ELSE TeamOf(call).subTeams

\* the gender of an entry: MALE for 'M', FEMALE for 'F', None when absent
\* (and, with emptyIsNone, when null or empty), "ValueError" for any other
\* value
GenderOf(entry, emptyIsNone) ==
    IF "gender" \notin DOMAIN entry THEN None
    ELSE IF entry.gender = "M" THEN "MALE"
    ELSE IF entry.gender = "F" THEN "FEMALE"
    ELSE IF emptyIsNone /\ entry.gender \in {"", None} THEN None
    ELSE "ValueError"

ContendersAsRead(call, emptyIsNone) ==
    LET sources == SourcesOf(call)
        n == Len(TeamOf(call).subTeams)
    IN  IF n \notin {0, 2} THEN call.outcome = "ValueError"
        ELSE IF \E i \in 1..Len(sources) : GenderOf(sources[i], emptyIsNone) = "ValueError"
        THEN call.outcome = "ValueError"
        ELSE /\ call.outcome = "returned"
             /\ Len(call.result) = 2
             /\ n = 0 => call.result[2] = NoContender
             /\ \A i \in 1..Len(sources) :
                   /\ call.result[i].name = sources[i].name
                   /\ call.result[i].ssid = sources[i].id
                   /\ call.result[i].gender = GenderOf(sources[i], emptyIsNone)

Hand == [RIGHT |-> "R", LEFT |-> "L", UNKNOWN |-> "U"]

\* csv.reader on a line without quotes: the fields between the commas
RECURSIVE CsvFields(_, _, _, _)
CsvFields(line, i, field, acc) ==
    IF i > Len(line) THEN Append(acc, field)
    ELSE IF Ch(line, i) = "," THEN CsvFields(line, i + 1, "", Append(acc, field))
    ELSE CsvFields(line, i + 1, field \o Ch(line, i), acc)

CsvRow(line) == CsvFields(line, 1, "", <<>>)

AllDigits(text) == \A i \in 1..Len(text) : IsDigit(Ch(text, i))

\* int() of a string of digits
RECURSIVE Num(_)
Num(text) ==
    IF text = "" THEN 0
    ELSE 10 * Num(SubSeq(text, 1, Len(text) - 1)) + DigitValue(Ch(text, Len(text)))

NoDate == [some |-> FALSE]
Date(year, month, day) == [some |-> TRUE, year |-> year, month |-> month, day |-> day]

DaysIn(year, month) ==
    IF month \in {4, 6, 9, 11} THEN 30
    ELSE IF month # 2 THEN 31
    ELSE IF year % 4 = 0 /\ (year % 100 # 0 \/ year % 400 = 0) THEN 29 ELSE 28

\* datetime(year, month, day) accepts these
ValidDate(year, month, day) ==
    year \in 1..9999 /\ month \in 1..12 /\ day \in 1..DaysIn(year, month)

\* dateutil's parser.parse(bd) on a field of a players file: eight digits
\* are YYYYMMDD; six digits are three two-digit numbers, read as day, month
\* and year when the first is above 12, as year, month and day when it is
\* above 31, else as month, day and year, a two-digit year being of the
\* century around today's date; an empty string and a string holding
\* anything but digits are no date. Got(date), or Raise("ParserError").
ParserParse(bd) ==
    IF bd = "" \/ ~AllDigits(bd) THEN Raise("ParserError")
    ELSE IF Len(bd) = 8
    THEN LET year == Num(SubSeq(bd, 1, 4))
             month == Num(SubSeq(bd, 5, 6))
             day == Num(SubSeq(bd, 7, 8))
         IN  IF ValidDate(year, month, day) THEN Got(Date(year, month, day))
             ELSE Raise("ParserError")
    ELSE IF Len(bd) = 6
    THEN LET a == Num(SubSeq(bd, 1, 2))
             b == Num(SubSeq(bd, 3, 4))
             c == Num(SubSeq(bd, 5, 6))
             century(yy) == IF yy < 70 THEN 2000 + yy ELSE 1900 + yy
             year == century(IF a > 31 THEN a ELSE c)
             month == IF a > 31 \/ a > 12 THEN b ELSE a
             day == IF a > 31 THEN c ELSE IF a > 12 THEN a ELSE b
         IN  IF ValidDate(year, month, day) THEN Got(Date(year, month, day))
             ELSE Raise("ParserError")
    ELSE Raise("ParserError")

\* datetime.strptime(text, "%Y"): four digits of a year from 1 on
StrptimeYear(text) ==
    IF Len(text) = 4 /\ AllDigits(text) /\ Num(text) >= 1
    THEN Got(Date(Num(text), 1, 1)) ELSE Raise("ValueError")

\* datetime.strptime(text, "%Y%m") of six characters: the year, and a month
\* 01..12 that leaves nothing unconverted
StrptimeYearMonth(text) ==
    IF AllDigits(text) /\ Num(SubSeq(text, 1, 4)) >= 1 /\ Num(SubSeq(text, 5, 6)) \in 1..12
    THEN Got(Date(Num(SubSeq(text, 1, 4)), Num(SubSeq(text, 5, 6)), 1))
    ELSE Raise("ValueError")

\* the birthdate of a row: parser.parse and the except clause
Birthdate(bd) ==
    LET parsed == ParserParse(bd)
    IN  IF parsed.exc = "none" THEN parsed
        ELSE IF Len(bd) = 8 THEN StrptimeYear(SubSeq(bd, 1, 4))
        ELSE IF Len(bd) = 6 THEN StrptimeYearMonth(bd)
        ELSE Got(NoDate)

\* the hand of a row: the member with that value, UNKNOWN when there is none
HandOf(hand) ==
    IF MemberOf(Hand, hand) # None THEN MemberOf(Hand, hand) ELSE "UNKNOWN"

\* one row of getplayers up to Player(...): the player, or what is raised
RowPlayer(row) ==
    IF Len(row) # 6 THEN Raise("ValueError")
    ELSE LET bd == Birthdate(row[5])
         IN  IF bd.exc # "none" THEN Raise(bd.exc)
             ELSE IF row[1] = "" \/ ~AllDigits(row[1]) THEN Raise("ValueError")
             ELSE Got([id |-> Num(row[1]), firstname |-> row[2], lastname |-> row[3],
                       hand |-> HandOf(row[4]), birthdate |-> bd.value,
                       country_code |-> row[6]])

\* filter_(player) for the filters used below
ApplyFilter(filter_, player) ==
    IF filter_ = "poles" THEN player.country_code = "POL"
    ELSE player.hand = "LEFT"

\* a loop turn of getplayers: the players yielded so far and how the turn ends
GetPlayersTurn(row, filter_, yielded) ==
    LET player == RowPlayer(row)
    IN  IF player.exc # "none" THEN [outcome |-> player.exc, yielded |-> yielded]
        ELSE IF filter_ # None /\ ApplyFilter(filter_, player.value)
        THEN [outcome |-> "running", yielded |-> Append(yielded, player.value)]
        ELSE IF filter_ = None
        THEN [outcome |-> "running", yielded |-> Append(yielded, player.value)]
        ELSE [outcome |-> "running", yielded |-> yielded]

MaxRows == 2
Lines ==
    {"1,Hubert,Hurkacz,R,19970211,POL", "2,Rafael,Nadal,L,19860603,ESP",
     "3,Jadwiga,Jedrzejowska,U,19121015,POL", "4,Old,Timer,R,18900000,GBR",
     "5,No,Body,,,USA", "6,Odd,Hand,A,198705,POL", "7,No,Month,L,198700,POL",
     "8,No,Date,R,unknown!,FRA"}
RECURSIVE Files(_)
Files(n) ==
    IF n = 0 THEN {<<>>}
    ELSE Files(n - 1) \cup {Append(f, line) : f \in Files(n - 1), line \in Lines}
Filters == {None, "poles", "lefties"}

InitPlayers ==
    /\ fcall \in {[op |-> "getplayers", csvsource |-> f, filter_ |-> filter_, row |-> 0,
                   outcome |-> "running", yielded |-> <<>>] :
                     f \in Files(MaxRows), filter_ \in Filters}
    /\ fs = Unused /\ dirs = Unused /\ last = Unused /\ prevDump = Unused
    /\ calls = Unused /\ server = Unused /\ pull = Unused /\ prune = Unused
    /\ mcall = Unused

\* next() on the generator while the reader has a row
GetPlayersNext ==
    /\ fcall.outcome = "running" /\ fcall.row < Len(fcall.csvsource)
    /\ LET r == GetPlayersTurn(CsvRow(fcall.csvsource[fcall.row + 1]),
                               fcall.filter_, fcall.yielded)
       IN  fcall' = [fcall EXCEPT !.row = @ + 1, !.outcome = r.outcome,
                                  !.yielded = r.yielded]
    /\ UNCHANGED <<fs, dirs, last, prevDump, calls, server, pull, prune, mcall>>

\* the reader is exhausted
GetPlayersStop ==
    /\ fcall.outcome = "running" /\ fcall.row = Len(fcall.csvsource)
    /\ fcall' = [fcall EXCEPT !.outcome = "finished"]
    /\ UNCHANGED <<fs, dirs, last, prevDump, calls, server, pull, prune, mcall>>

NextPlayers == GetPlayersNext \/ GetPlayersStop

SpecPlayers == InitPlayers /\ [][NextPlayers]_vars

\* the numbers (first fields) of the rows a filter lets through, in row order
RECURSIVE PassingIds(_, _)
PassingIds(file, filter_) ==
    IF file = <<>> THEN <<>>
    ELSE LET row == CsvRow(Head(file))
             passes == \/ filter_ = None
                       \/ filter_ = "poles" /\ row[6] = "POL"
                       \/ filter_ = "lefties" /\ row[4] = "L"
         IN  (IF passes THEN <<Num(row[1])>> ELSE <<>>) \o PassingIds(Tail(file), filter_)

\* C16: getplayers yields, in row order, one Player for every row when
\* filter_ is None and the players filter_ accepts otherwise; a hand code
\* other than 'R', 'L' and 'U' becomes UNKNOWN, and no birthdate makes it
\* raise.
C16_GetPlayersNeverRaises ==
    /\ fcall.outcome \in {"running", "finished"}
    /\ fcall.outcome = "finished"
       => /\ [i \in 1..Len(fcall.yielded) |-> fcall.yielded[i].id]
                = PassingIds(fcall.csvsource, fcall.filter_)
          /\ \A i \in 1..Len(fcall.yielded) :
                fcall.yielded[i].hand \in {"RIGHT", "LEFT", "UNKNOWN"}
====
